---- MODULE Spec2Model ----
(***************************************************************************)
(* StegoShield service (src/Resources/stegoshield_service/main.py).        *)
(*                                                                         *)
(* Four specifications over one set of variables:                          *)
(*   Spec       the /analyze handler, step by step, calling the operators  *)
(*              and the embedder below;                                    *)
(*   SpecMeta   metadata_flags applied to bounded metadata mappings;       *)
(*   SpecRdr    rdr_inconsistency_score applied to every outcome of its    *)
(*              resample trials;                                           *)
(*   SpecEmbed  embed_watermark_dct_bytes called directly, block by block. *)
(*                                                                         *)
(* Text is a tuple of one-character strings; a real score s is the integer *)
(* s * ScoreUnit; the RDR score is an exact fraction <<num, den>>; a       *)
(* transform coefficient d is the integer 2*d (halves), so that rounding   *)
(* is a real operation of the model.                                       *)
(***************************************************************************)
EXTENDS Integers, Sequences, FiniteSets, TLC

(* ------------------------------ bounds -------------------------------- *)
MaxExif == 2        \* entries of an EXIF mapping
MaxInfo == 1        \* entries of an info dictionary
MaxCoef == 2        \* |rounded host coefficient| at (row 1, column 0)
MaxRegions == 1     \* OCR regions of one image (analyze)

(* ----------------------------- constants ------------------------------ *)
ScoreUnit == 8 * 10000
SCORE_BLOCK == (85 * ScoreUnit) \div 100
SCORE_QUARANTINE == (55 * ScoreUnit) \div 100
METADATA_SUSPICION_KEYS == {"comment", "UserComment", "XPComment", "ImageDescription"}
SUSPICIOUS_KEYWORDS ==
    { <<"i","g","n","o","r","e">>, <<"d","o","w","n","l","o","a","d">>,
      <<"s","e","c","r","e","t">>, <<"p","a","s","s","w","o","r","d">>,
      <<"e","x","e","c","u","t","e">>, <<"r","u","n">>, <<"o","p","e","n">>,
      <<"l","e","a","k">>, <<"e","x","f","i","l","t","r","a","t","e">> }
LongValue == 512          \* len(value) > 512
NumResamples == 5         \* num_resamples: int = 5
Alpha == 4                \* alpha: int = 4
BlockSize == 8

(* ------------------------------ text ---------------------------------- *)
Upper == <<"A","B","C","D","E","F","G","H","I","J","K","L","M",
           "N","O","P","Q","R","S","T","U","V","W","X","Y","Z">>
Lower == <<"a","b","c","d","e","f","g","h","i","j","k","l","m",
           "n","o","p","q","r","s","t","u","v","w","x","y","z">>
Whitespace == {" ", "\n", "\t"}

\* str.lower(), one character
LowerChar(c) ==
    IF \E i \in 1..Len(Upper) : Upper[i] = c
    THEN Lower[CHOOSE i \in 1..Len(Upper) : Upper[i] = c]
    ELSE c

\* str.lower()
lower(t) == [i \in 1..Len(t) |-> LowerChar(t[i])]

\* str.strip()
strip(t) ==
    LET keep == {i \in 1..Len(t) : t[i] \notin Whitespace}
    IN  IF keep = {} THEN <<>>
        ELSE LET lo == CHOOSE i \in keep : \A j \in keep : i <= j
                 hi == CHOOSE i \in keep : \A j \in keep : j <= i
             IN  SubSeq(t, lo, hi)

\* k in t
Contains(t, k) ==
    \E off \in 0..(Len(t) - Len(k)) : \A i \in 1..Len(k) : t[off + i] = k[i]

\* any(k in t.lower() for k in SUSPICIOUS_KEYWORDS)
IsSuspiciousText(t) == \E k \in SUSPICIOUS_KEYWORDS : Contains(lower(t), k)

(* --------------------------- generic helpers -------------------------- *)
Range(s) == {s[i] : i \in 1..Len(s)}

RECURSIVE SetToSeq(_)
\* list(set(...)): the elements of a set in some order, each once
SetToSeq(S) ==
    IF S = {} THEN <<>>
    ELSE LET x == CHOOSE y \in S : TRUE IN <<x>> \o SetToSeq(S \ {x})

(* ------------------------- metadata_flags ----------------------------- *)
\* PIL.ExifTags.TAGS restricted to the tag ids of the model.  The table is
\* not injective: 0x828E and 0xA302 are both named CFAPattern.
TAGS == [ id \in {270, 33422, 41730} |->
            IF id = 270 THEN "ImageDescription" ELSE "CFAPattern" ]
\* str(tag_id) of the one tag id of the model that TAGS does not know
Decimal == [ id \in {59932} |-> "59932" ]

\* ExifTags.TAGS.get(tag_id, tag_id), as formatted by the f-strings
TagName(id) == IF id \in DOMAIN TAGS THEN TAGS[id] ELSE Decimal[id]
\* tag in METADATA_SUSPICION_KEYS (an integer tag is never in the list)
TagOnWatchList(id) == id \in DOMAIN TAGS /\ TAGS[id] \in METADATA_SUSPICION_KEYS

IsBytes(v) == v.vtype = "bytes"
IsLongStr(v) == v.vtype = "str" /\ v.vlen > LongValue

\* the labels one EXIF entry appends, in order (lines 72-78)
ExifEntryFlags(e) ==
    (IF TagOnWatchList(e.id) THEN << <<"meta_field", TagName(e.id)>> >> ELSE <<>>)
    \o (IF IsBytes(e) THEN << <<"meta_raw_bytes", TagName(e.id)>> >> ELSE <<>>)
    \o (IF IsLongStr(e) THEN << <<"meta_long", TagName(e.id)>> >> ELSE <<>>)

\* str.lower() on the info keys of the model
KeyLower == [ k \in {"comment", "Comment", "UserComment", "dpi"} |->
                IF k \in {"comment", "Comment"} THEN "comment"
                ELSE IF k = "UserComment" THEN "usercomment" ELSE "dpi" ]

\* the label one info entry appends (lines 84-85)
InfoEntryFlags(e) ==
    IF KeyLower[e.key] \in METADATA_SUSPICION_KEYS \/ IsLongStr(e)
    THEN << <<"png_info", e.key>> >> ELSE <<>>

RECURSIVE ExifLoop(_, _)
\* the first try block: the entries read before an exception (if any)
ExifLoop(exif, n) ==
    IF n = 0 \/ exif = <<>> THEN <<>>
    ELSE ExifEntryFlags(Head(exif)) \o ExifLoop(Tail(exif), n - 1)

RECURSIVE InfoLoop(_)
\* the second try block: k.lower() raises on a key that is no string
InfoLoop(info) ==
    IF info = <<>> \/ ~Head(info).isstr THEN <<>>
    ELSE InfoEntryFlags(Head(info)) \o InfoLoop(Tail(info))

\* flags before the final list(set(flags))
RawFlags(exif, exifRead, info) == ExifLoop(exif, exifRead) \o InfoLoop(info)

\* return flags, without list(set(...))
metadata_flags_NoDedup(exif, exifRead, info) == ExifLoop(exif, exifRead) \o InfoLoop(info)

metadata_flags(exif, exifRead, info) == SetToSeq(Range(RawFlags(exif, exifRead, info)))

(* -------------------------- ocr_with_boxes ---------------------------- *)
\* data['text'] is a sequence of raw region texts; the position i of a
\* region stands for its (left, top, width, height).
ocr_with_boxes(data) ==
    LET stripped == [i \in 1..Len(data) |-> <<i, strip(data[i])>>]
        boxes == SelectSeq(stripped, LAMBDA b : b[2] # <<>>)
    IN  [ texts |-> [i \in 1..Len(boxes) |-> boxes[i][2]],
          boxes |-> boxes,
          suspicious |-> SelectSeq(boxes, LAMBDA b : IsSuspiciousText(b[2])) ]

(* ---------------------- rdr_inconsistency_score ----------------------- *)
\* One trial is [throws, text]: _random_resample raises, or returns the
\* stripped text of the resampled image.
RECURSIVE CollectTexts_KeepBlank(_)
\* the loop without its "if t:" test
CollectTexts_KeepBlank(trials) ==
    IF trials = <<>> THEN <<>>
    ELSE (IF ~Head(trials).throws THEN <<strip(Head(trials).text)>> ELSE <<>>)
         \o CollectTexts_KeepBlank(Tail(trials))

RECURSIVE CollectTexts(_)
\* lines 114-121
CollectTexts(trials) ==
    IF trials = <<>> THEN <<>>
    ELSE (IF ~Head(trials).throws /\ strip(Head(trials).text) # <<>>
          THEN <<strip(Head(trials).text)>> ELSE <<>>)
         \o CollectTexts(Tail(trials))

Max(a, b) == IF a >= b THEN a ELSE b
Min(a, b) == IF a <= b THEN a ELSE b

\* lines 124-131 on the collected texts; the score is the exact fraction
\* <<num, den>>, and frac < 0.7 is 10 * count_susp < 7 * max(1, len(texts))
Inconsistency(count_susp, n) ==
    IF count_susp > 0 /\ 10 * count_susp < 7 * n THEN <<2 * n - count_susp, 2 * n>>
    ELSE IF count_susp > 0 THEN <<4 * count_susp, 10 * n>>
    ELSE <<0, 1>>

rdr_inconsistency_score(trials) ==
    LET texts == CollectTexts(trials)
        sus == SelectSeq(texts, IsSuspiciousText)
    IN  IF texts = <<>> THEN [score |-> <<0, 1>>, sus |-> <<>>]
        ELSE [score |-> Inconsistency(Len(sus), Max(1, Len(texts))), sus |-> sus]

\* rdr_score >= 0.5
RdrAtLeastHalf(score) == 2 * score[1] >= score[2]

(* ----------------------- score and decision --------------------------- *)
\* the metadata term at 0.5
RawScore_LowMetadataWeight(lsb, ge, bl, hasFlags) ==
    (35 * lsb) * (ScoreUnit \div 10000) + (15 * ge) * (ScoreUnit \div 80000)
    + (25 * bl) * (ScoreUnit \div 10000) + (IF hasFlags THEN (5 * ScoreUnit) \div 10 ELSE 0)

\* lsb_entropy and blockiness are in hundredths, global_entropy in
\* hundredths of a bit; the result is in 1/ScoreUnit (lines 215-217)
RawScore(lsb, ge, bl, hasFlags) ==
    (35 * lsb) * (ScoreUnit \div 10000) + (15 * ge) * (ScoreUnit \div 80000)
    + (25 * bl) * (ScoreUnit \div 10000) + (IF hasFlags THEN (6 * ScoreUnit) \div 10 ELSE 0)

\* the score without max(0.0, min(1.0, score))
StegoScore_NoClamp(lsb, ge, bl, hasFlags) ==
    (35 * lsb) * (ScoreUnit \div 10000) + (15 * ge) * (ScoreUnit \div 80000)
    + (25 * bl) * (ScoreUnit \div 10000) + (IF hasFlags THEN (6 * ScoreUnit) \div 10 ELSE 0)

StegoScore(lsb, ge, bl, hasFlags) == Max(0, Min(ScoreUnit, RawScore(lsb, ge, bl, hasFlags)))

\* lines 219-223
BaseDecision(score) ==
    IF score >= SCORE_BLOCK THEN "BLOCK"
    ELSE IF score >= SCORE_QUARANTINE THEN "SUSPICIOUS"
    ELSE "ALLOW"

\* lines 224-225
EscalateRdr(decision, rdr_score) ==
    IF RdrAtLeastHalf(rdr_score)
    THEN (IF decision = "ALLOW" THEN "SUSPICIOUS" ELSE "BLOCK")
    ELSE decision

\* the keyword rule without its "decision != BLOCK" test
EscalateKeyword_Always(decision, suspicious_boxes) ==
    IF suspicious_boxes # <<>> THEN "SUSPICIOUS" ELSE decision

\* lines 226-227
EscalateKeyword(decision, suspicious_boxes) ==
    IF suspicious_boxes # <<>> /\ decision # "BLOCK" THEN "SUSPICIOUS" ELSE decision

Severity(d) == CASE d = "ALLOW" -> 0 [] d = "SUSPICIOUS" -> 1 [] d = "BLOCK" -> 2

(* ------------------ message -> base64 -> bit string ------------------- *)
\* str.encode('utf-8') of one code point below 2048
Utf8Char(cp) == IF cp < 128 THEN <<cp>> ELSE <<192 + (cp \div 64), 128 + (cp % 64)>>

RECURSIVE Utf8(_)
Utf8(msg) == IF msg = <<>> THEN <<>> ELSE Utf8Char(Head(msg)) \o Utf8(Tail(msg))

\* the ASCII code of the base64 digit v
B64Char(v) ==
    IF v < 26 THEN 65 + v
    ELSE IF v < 52 THEN 97 + (v - 26)
    ELSE IF v < 62 THEN 48 + (v - 52)
    ELSE IF v = 62 THEN 43 ELSE 47
PadChar == 61

RECURSIVE b64encode(_)
\* base64.b64encode, as ASCII codes
b64encode(bytes) ==
    IF bytes = <<>> THEN <<>>
    ELSE IF Len(bytes) = 1 THEN
        << B64Char(bytes[1] \div 4), B64Char((bytes[1] % 4) * 16), PadChar, PadChar >>
    ELSE IF Len(bytes) = 2 THEN
        << B64Char(bytes[1] \div 4),
           B64Char(((bytes[1] % 4) * 16) + (bytes[2] \div 16)),
           B64Char((bytes[2] % 16) * 4), PadChar >>
    ELSE
        << B64Char(bytes[1] \div 4),
           B64Char(((bytes[1] % 4) * 16) + (bytes[2] \div 16)),
           B64Char(((bytes[2] % 16) * 4) + (bytes[3] \div 64)),
           B64Char(bytes[3] % 64) >>
        \o b64encode(SubSeq(bytes, 4, Len(bytes)))

\* format(b, '08b')
Bits8(b) == [i \in 1..8 |-> (b \div (2 ^ (8 - i))) % 2]

RECURSIVE BitString(_)
\* line 149
BitString(codes) ==
    IF codes = <<>> THEN <<>> ELSE Bits8(Head(codes)) \o BitString(Tail(codes))

\* the truncation one bit short: bits[: bh * bw - 1]
MessageBits_OffByOne(message, bh, bw) ==
    LET bits == BitString(b64encode(Utf8(message)))
    IN  SubSeq(bits, 1, Min(Len(bits), bh * bw - 1))

\* lines 148-150
MessageB64(message) == b64encode(Utf8(message))
MessageBits(message, bh, bw) ==
    LET bits == BitString(MessageB64(message))
    IN  SubSeq(bits, 1, Min(Len(bits), bh * bw))

\* lines 144-147: blocks per side of the reflect-padded plane
PaddedBlocks(n) == (n + ((BlockSize - (n % BlockSize)) % BlockSize)) \div BlockSize

(* --------------------- one block of the embedder ---------------------- *)
\* np.round: to the nearest integer, a half to the even neighbour; d2 = 2*d
RoundHalfEven(d2) ==
    IF d2 % 2 = 0 THEN d2 \div 2
    ELSE LET lo == (d2 - 1) \div 2 IN IF lo % 2 = 0 THEN lo ELSE lo + 1

\* lines 161-167: the value (in halves) left at d[1, 0]
EmbedCoefficient(d2, bit, alpha) ==
    LET coeff_int == RoundHalfEven(d2)
    IN  IF (coeff_int % 2) # bit
        THEN (IF coeff_int >= 0 THEN 2 * (coeff_int + alpha) ELSE 2 * (coeff_int - alpha))
        ELSE d2

\* line 168-169 for block (i, j): what the loop records about the block
ProcessBlock(i, j, d2, bits, bit_idx, alpha) ==
    [ i |-> i, j |-> j, k |-> bit_idx, bit |-> bits[bit_idx + 1],
      before |-> d2, after |-> EmbedCoefficient(d2, bits[bit_idx + 1], alpha) ]

\* line 151
NoBits(bits) == bits = <<>>

(* ------------------------------ analyze ------------------------------- *)
\* res[k] = v
Put(r, k, v) == [x \in (DOMAIN r) \cup {k} |-> IF x = k THEN v ELSE r[x]]
EmptyDict == [x \in {} |-> 0]

\* the guard without its decision test
WatermarkGuard_EnabledOnly(enabled, d) == enabled

\* line 231
WatermarkGuard(enabled, d) == enabled /\ d = "ALLOW"

\* lines 234-235
OnWatermarkOk(r, wm, b64) == Put(Put(r, "watermarked_base64", wm), "watermark_message", b64)
\* the embedder's exception reaching the handler of lines 240-241
OnWatermarkError_Discard(r, e) == [x \in {"error"} |-> e]

\* lines 236-237
OnWatermarkError(r, e) == Put(r, "watermark_error", e)

\* watermark_msg or "stegoshield-demo"
DefaultMessage == <<115,116,101,103,111,115,104,105,101,108,100,45,100,101,109,111>>
MessageOrDefault(m) == IF m = <<>> THEN DefaultMessage ELSE m

(* ------------------------------ inputs -------------------------------- *)
\* decoded image sizes (height, width): one block; padded to 2 x 3 blocks;
\* padded to 6 x 6 blocks, more than the 32 bits of a short message
ImageDims == { [h |-> 8, w |-> 8], [h |-> 9, w |-> 17], [h |-> 41, w |-> 48] }
\* watermark messages as code points: "", "hi", "\u00e9"
Messages == { <<>>, <<104, 105>>, <<233>> }
\* 2 * d[1, 0] of a host block
CoefHalves == (0 - (2 * MaxCoef + 1))..(2 * MaxCoef + 1)
AlphaValues == {Alpha, Alpha + 1}

\* the sizes analyze is run on: one block; 2 x 3 blocks, blockiness defined
AnalyzeDims == { [h |-> 8, w |-> 8], [h |-> 16, w |-> 17] }
\* component scores, in hundredths (blockiness far above 1 included)
StatInputs == { [lsb |-> 0, ge |-> 0, bl |-> 0], [lsb |-> 100, ge |-> 800, bl |-> 0],
                [lsb |-> 100, ge |-> 800, bl |-> 40], [lsb |-> 100, ge |-> 800, bl |-> 2000] }

\* raw OCR texts
TextHi == <<"h","i">>
TextRun == <<"R","U","N">>
TextPrune == <<" ","p","r","u","n","e">>
TextBlank == <<" ">>
RegionTexts == {TextHi, TextPrune, TextBlank}
OcrData == UNION { [1..n -> RegionTexts] : n \in 0..MaxRegions }
TrialOutcomes == { [throws |-> TRUE, text |-> <<>>], [throws |-> FALSE, text |-> TextBlank],
                   [throws |-> FALSE, text |-> TextHi], [throws |-> FALSE, text |-> TextRun] }
TrialSeqs == [1..NumResamples -> TrialOutcomes]
\* analyze is run on the trial sequences that list raising trials first, then
\* blank, clean and suspicious ones; SpecRdr runs every order
TrialRank(o) == IF o.throws THEN 0 ELSE IF o.text = TextBlank THEN 1
                ELSE IF o.text = TextHi THEN 2 ELSE 3
AnalyzeTrialSeqs ==
    { t \in TrialSeqs : \A i \in 1..(NumResamples - 1) : TrialRank(t[i]) <= TrialRank(t[i + 1]) }

\* metadata mappings: EXIF entries in ascending tag order, info entries
ExifIds == {270, 33422, 41730, 59932}
Values == { [vtype |-> "str", vlen |-> LongValue], [vtype |-> "str", vlen |-> 600],
            [vtype |-> "bytes", vlen |-> 4] }
ExifEntries == { [id |-> t, vtype |-> v.vtype, vlen |-> v.vlen] : t \in ExifIds, v \in Values }
ExifMaps(n) ==
    { m \in UNION { [1..k -> ExifEntries] : k \in 0..n } :
        \A a, b \in 1..Len(m) : a < b => m[a].id < m[b].id }
InfoKeys == {"comment", "Comment", "UserComment", "dpi"}
InfoEntries ==
    { [key |-> k, isstr |-> TRUE, vtype |-> v.vtype, vlen |-> v.vlen] :
        k \in InfoKeys, v \in {u \in Values : u.vtype = "str"} }
    \cup { [key |-> "296", isstr |-> FALSE, vtype |-> "str", vlen |-> 600] }
InfoMaps(n) ==
    { m \in UNION { [1..k -> InfoEntries] : k \in 0..n } :
        \A a, b \in 1..Len(m) : a # b => m[a].key # m[b].key }
\* the mappings analyze is run on: none; a 600-character ImageDescription
\* (read, or lost to a read failure); a short comment in the info dictionary
AnalyzeMetadata ==
    { [exif |-> <<>>, info |-> <<>>],
      [exif |-> << [id |-> 270, vtype |-> "str", vlen |-> 600] >>, info |-> <<>>],
      [exif |-> <<>>,
       info |-> << [key |-> "comment", isstr |-> TRUE, vtype |-> "str", vlen |-> 4] >>] }

(* ------------------------------- state -------------------------------- *)
VARIABLES
    pc,                 \* position in the running function
    caller,             \* who called the embedder: "analyze" or "direct"
    img,                \* decoded image size [h, w]
    res,                \* analyze: the result dictionary
    flags,              \* metadata_flags(img)
    suspicious_boxes,   \* analyze: third result of ocr_with_boxes
    rdr,                \* [score, sus] of rdr_inconsistency_score
    decision,           \* analyze: the local decision
    watermark_enabled, watermark_msg,
    response,           \* analyze: [status, body] of the JSONResponse
    alpha, message,     \* embedder: arguments
    bits, msg_b64, bit_idx, blk,   \* embedder: locals (blk = [i, j])
    embed_out,          \* embedder: "none", "ok" or the ValueError text
    exif, exifRead, info,   \* metadata_flags: the mappings and how far EXIF reads
    trials,             \* rdr_inconsistency_score: the outcome of each trial
    \* history, read by the properties only
    base,               \* the decision of lines 219-223
    ocr_threw,          \* the initial ocr_with_boxes call raised
    trial_threw,        \* some resample trial raised
    res0,               \* res when the embedder was called
    embed_calls,        \* calls of the embedder
    last,               \* the block processed last
    processed           \* the blocks processed, in order

vars == << pc, caller, img, res, flags, suspicious_boxes, rdr, decision,
           watermark_enabled, watermark_msg, response, alpha, message, bits,
           msg_b64, bit_idx, blk, embed_out, exif, exifRead, info, trials,
           base, ocr_threw, trial_threw, res0, embed_calls, last, processed >>

analyzeVars == << res, suspicious_boxes, decision, watermark_enabled, watermark_msg,
                  response, base, ocr_threw, trial_threw, res0 >>
embedVars == << alpha, message, bits, msg_b64, bit_idx, blk, embed_out, last, processed >>
metaVars == << exif, exifRead, info >>

NoBlock == [i |-> 0, j |-> 0, k |-> 0, bit |-> 0, before |-> 0, after |-> 0]
NoRdr == [score |-> <<0, 1>>, sus |-> <<>>]

\* the locals before a function runs; each specification adds its arguments
Rest ==
    /\ caller = "direct"
    /\ res = EmptyDict
    /\ flags = <<>>
    /\ suspicious_boxes = <<>>
    /\ rdr = NoRdr
    /\ decision = "ALLOW"
    /\ watermark_enabled = FALSE
    /\ watermark_msg = <<>>
    /\ response = [status |-> 0, body |-> EmptyDict]
    /\ bits = <<>>
    /\ msg_b64 = <<>>
    /\ bit_idx = 0
    /\ blk = [i |-> 0, j |-> 0]
    /\ embed_out = "none"
    /\ base = "none"
    /\ ocr_threw = FALSE
    /\ trial_threw = FALSE
    /\ res0 = EmptyDict
    /\ embed_calls = 0
    /\ last = NoBlock
    /\ processed = <<>>

(* ------------------- embed_watermark_dct_bytes ------------------------ *)
bh == PaddedBlocks(img.h)
bw == PaddedBlocks(img.w)

\* lines 137-140: cv2.imdecode returns None
EmbedDecodeFails ==
    /\ pc = "embed_decode"
    /\ embed_out' = "Cannot decode image"
    /\ pc' = "embed_exit"
    /\ UNCHANGED << caller, img, flags, rdr, trials, embed_calls, analyzeVars, metaVars,
                    alpha, message, bits, msg_b64, bit_idx, blk, last, processed >>

\* lines 141-153
EmbedBits ==
    /\ pc = "embed_decode"
    /\ msg_b64' = MessageB64(message)
    /\ bits' = MessageBits(message, bh, bw)
    /\ IF NoBits(bits')
       THEN embed_out' = "Message empty or host too small" /\ pc' = "embed_exit"
       ELSE embed_out' = embed_out /\ pc' = "embed_loop"
    /\ bit_idx' = 0
    /\ blk' = [i |-> 0, j |-> 0]
    /\ UNCHANGED << caller, img, flags, rdr, trials, embed_calls, analyzeVars, metaVars,
                    alpha, message, last, processed >>

\* lines 156-169: one block; the host's coefficient is whatever the image holds
EmbedBlock ==
    /\ pc = "embed_loop"
    /\ blk.i < bh /\ blk.j < bw /\ bit_idx < Len(bits)
    /\ \E d2 \in CoefHalves :
         /\ last' = ProcessBlock(blk.i, blk.j, d2, bits, bit_idx, alpha)
         /\ processed' = Append(processed, << blk.i, blk.j, bits[bit_idx + 1] >>)
    /\ bit_idx' = bit_idx + 1
    /\ blk' = [blk EXCEPT !.j = blk.j + 1]
    /\ UNCHANGED << pc, caller, img, flags, rdr, trials, embed_calls, analyzeVars, metaVars,
                    alpha, message, bits, msg_b64, embed_out >>

\* lines 154-157, 170-171: the inner loop ends (exhausted or break)
EmbedRowEnd ==
    /\ pc = "embed_loop"
    /\ blk.i < bh /\ (blk.j = bw \/ bit_idx >= Len(bits))
    /\ IF bit_idx >= Len(bits) \/ blk.i + 1 = bh
       THEN pc' = "embed_encode" /\ blk' = blk
       ELSE pc' = pc /\ blk' = [i |-> blk.i + 1, j |-> 0]
    /\ UNCHANGED << caller, img, flags, rdr, trials, embed_calls, analyzeVars, metaVars,
                    alpha, message, bits, msg_b64, bit_idx, embed_out, last, processed >>

\* lines 172-176
EmbedReturn ==
    /\ pc = "embed_encode"
    /\ embed_out' = "ok"
    /\ pc' = "embed_exit"
    /\ UNCHANGED << caller, img, flags, rdr, trials, embed_calls, analyzeVars, metaVars,
                    alpha, message, bits, msg_b64, bit_idx, blk, last, processed >>

(* ------------------------------ analyze ------------------------------- *)
\* lines 193-194: Image.open raises on bytes that are no image
AnalyzeOpenFails ==
    /\ pc = "open"
    /\ pc' = "except"
    /\ UNCHANGED << caller, img, flags, rdr, trials, embed_calls, analyzeVars, metaVars,
                    embedVars >>

\* lines 193-199
AnalyzeOpen ==
    /\ pc = "open"
    /\ \E d \in AnalyzeDims : img' = d
    /\ res' = Put(Put(EmptyDict, "path", "upload"), "sha256", "digest")
    /\ pc' = "metadata"
    /\ UNCHANGED << caller, flags, rdr, trials, embed_calls, suspicious_boxes, decision,
                    watermark_enabled, watermark_msg, response, base, ocr_threw,
                    trial_threw, res0, metaVars, embedVars >>

\* lines 201-202
AnalyzeMetadataFlags ==
    /\ pc = "metadata"
    /\ \E m \in AnalyzeMetadata, n \in 0..1 :
         /\ n <= Len(m.exif) /\ (m.exif # <<>> \/ n = 0)
         /\ exif' = m.exif /\ info' = m.info /\ exifRead' = n
         /\ flags' = metadata_flags(m.exif, n, m.info)
    /\ res' = Put(res, "metadata_flags", flags')
    /\ pc' = "stats"
    /\ UNCHANGED << caller, img, rdr, trials, embed_calls, suspicious_boxes, decision,
                    watermark_enabled, watermark_msg, response, base, ocr_threw,
                    trial_threw, res0, embedVars >>

\* lines 203-205; jpeg_blockiness_score is 0 below 16 pixels a side
AnalyzeStats ==
    /\ pc = "stats"
    /\ \E s \in StatInputs :
         /\ (img.h < 16 \/ img.w < 16) => s.bl = 0
         /\ res' = Put(Put(Put(res, "lsb_entropy", s.lsb), "global_entropy", s.ge),
                       "blockiness", s.bl)
    /\ pc' = "ocr"
    /\ UNCHANGED << caller, img, flags, rdr, trials, embed_calls, suspicious_boxes, decision,
                    watermark_enabled, watermark_msg, response, base, ocr_threw,
                    trial_threw, res0, metaVars, embedVars >>

\* line 207: pytesseract.image_to_data raises; nothing around the call catches it
AnalyzeOcrRaises ==
    /\ pc = "ocr"
    /\ ocr_threw' = TRUE
    /\ pc' = "except"
    /\ UNCHANGED << caller, img, flags, rdr, trials, embed_calls, res, suspicious_boxes,
                    decision, watermark_enabled, watermark_msg, response, base,
                    trial_threw, res0, metaVars, embedVars >>

\* lines 207-209
AnalyzeOcr ==
    /\ pc = "ocr"
    /\ \E data \in OcrData :
         LET o == ocr_with_boxes(data) IN
         /\ suspicious_boxes' = o.suspicious
         /\ res' = Put(Put(res, "ocr_texts", o.texts), "ocr_suspicious",
                       [i \in 1..Len(o.suspicious) |-> o.suspicious[i][2]])
    /\ pc' = "rdr"
    /\ UNCHANGED << caller, img, flags, rdr, trials, embed_calls, decision,
                    watermark_enabled, watermark_msg, response, base, ocr_threw,
                    trial_threw, res0, metaVars, embedVars >>

\* lines 211-213
AnalyzeRdr ==
    /\ pc = "rdr"
    /\ \E t \in AnalyzeTrialSeqs :
         /\ rdr' = rdr_inconsistency_score(t)
         /\ trial_threw' = \E i \in 1..Len(t) : t[i].throws
    /\ res' = Put(Put(res, "rdr_score", rdr'.score), "rdr_examples", rdr'.sus)
    /\ pc' = "score"
    /\ UNCHANGED << caller, img, flags, trials, embed_calls, suspicious_boxes, decision,
                    watermark_enabled, watermark_msg, response, base, ocr_threw,
                    res0, metaVars, embedVars >>

\* lines 215-217
AnalyzeScore ==
    /\ pc = "score"
    /\ res' = Put(res, "stego_score",
                  StegoScore(res["lsb_entropy"], res["global_entropy"], res["blockiness"],
                             flags # <<>>))
    /\ pc' = "base"
    /\ UNCHANGED << caller, img, flags, rdr, trials, embed_calls, suspicious_boxes, decision,
                    watermark_enabled, watermark_msg, response, base, ocr_threw,
                    trial_threw, res0, metaVars, embedVars >>

\* lines 219-223
AnalyzeBaseDecision ==
    /\ pc = "base"
    /\ decision' = BaseDecision(res["stego_score"])
    /\ base' = decision'
    /\ pc' = "escalate_rdr"
    /\ UNCHANGED << caller, img, flags, rdr, trials, embed_calls, res, suspicious_boxes,
                    watermark_enabled, watermark_msg, response, ocr_threw,
                    trial_threw, res0, metaVars, embedVars >>

\* lines 224-225
AnalyzeEscalateRdr ==
    /\ pc = "escalate_rdr"
    /\ decision' = EscalateRdr(decision, rdr.score)
    /\ pc' = "escalate_keyword"
    /\ UNCHANGED << caller, img, flags, rdr, trials, embed_calls, res, suspicious_boxes,
                    watermark_enabled, watermark_msg, response, base, ocr_threw,
                    trial_threw, res0, metaVars, embedVars >>

\* lines 226-229
AnalyzeEscalateKeyword ==
    /\ pc = "escalate_keyword"
    /\ decision' = EscalateKeyword(decision, suspicious_boxes)
    /\ res' = Put(res, "decision", decision')
    /\ pc' = "watermark"
    /\ UNCHANGED << caller, img, flags, rdr, trials, embed_calls, suspicious_boxes,
                    watermark_enabled, watermark_msg, response, base, ocr_threw,
                    trial_threw, res0, metaVars, embedVars >>

\* lines 231-233: the guard holds and the embedder is called on the raw bytes
AnalyzeWatermarkCall ==
    /\ pc = "watermark"
    /\ \E en \in BOOLEAN, m \in Messages :
         /\ WatermarkGuard(en, decision)
         /\ watermark_enabled' = en /\ watermark_msg' = m
         /\ message' = MessageOrDefault(m)
    /\ alpha' = Alpha
    /\ caller' = "analyze"
    /\ embed_calls' = embed_calls + 1
    /\ res0' = res
    /\ pc' = "embed_decode"
    /\ UNCHANGED << img, flags, rdr, trials, res, suspicious_boxes, decision, response,
                    base, ocr_threw, trial_threw, metaVars,
                    bits, msg_b64, bit_idx, blk, embed_out, last, processed >>

\* line 231: the guard fails
AnalyzeWatermarkSkip ==
    /\ pc = "watermark"
    /\ \E en \in BOOLEAN :
         /\ ~WatermarkGuard(en, decision)
         /\ watermark_enabled' = en
    /\ pc' = "respond"
    /\ UNCHANGED << caller, img, flags, rdr, trials, embed_calls, res, suspicious_boxes,
                    decision, watermark_msg, response, base, ocr_threw, trial_threw, res0, metaVars,
                    embedVars >>

\* lines 233-235: the embedder returned
AnalyzeWatermarkOk ==
    /\ pc = "embed_exit" /\ caller = "analyze" /\ embed_out = "ok"
    /\ res' = OnWatermarkOk(res, "png", msg_b64)
    /\ pc' = "respond"
    /\ UNCHANGED << caller, img, flags, rdr, trials, embed_calls, suspicious_boxes,
                    decision, watermark_enabled, watermark_msg, response, base, ocr_threw,
                    trial_threw, res0, metaVars, embedVars >>

\* lines 236-237: the embedder raised
AnalyzeWatermarkError ==
    /\ pc = "embed_exit" /\ caller = "analyze" /\ embed_out # "ok"
    /\ res' = OnWatermarkError(res, embed_out)
    /\ pc' = "respond"
    /\ UNCHANGED << caller, img, flags, rdr, trials, embed_calls, suspicious_boxes,
                    decision, watermark_enabled, watermark_msg, response, base, ocr_threw,
                    trial_threw, res0, metaVars, embedVars >>

\* line 239
AnalyzeRespond ==
    /\ pc = "respond"
    /\ response' = [status |-> 200, body |-> res]
    /\ pc' = "done"
    /\ UNCHANGED << caller, img, flags, rdr, trials, embed_calls, res, suspicious_boxes,
                    decision, watermark_enabled, watermark_msg, base, ocr_threw,
                    trial_threw, res0, metaVars, embedVars >>

\* lines 240-241
AnalyzeExcept ==
    /\ pc = "except"
    /\ response' = [status |-> 400, body |-> Put(EmptyDict, "error", "exception")]
    /\ pc' = "done"
    /\ UNCHANGED << caller, img, flags, rdr, trials, embed_calls, res, suspicious_boxes,
                    decision, watermark_enabled, watermark_msg, base, ocr_threw,
                    trial_threw, res0, metaVars, embedVars >>

NoArguments ==
    /\ img = [h |-> 0, w |-> 0] /\ alpha = Alpha /\ message = <<>>
    /\ exif = <<>> /\ exifRead = 0 /\ info = <<>> /\ trials = <<>>

Init == Rest /\ NoArguments /\ pc = "open"

Next ==
    \/ AnalyzeOpenFails \/ AnalyzeOpen \/ AnalyzeMetadataFlags \/ AnalyzeStats
    \/ AnalyzeOcrRaises \/ AnalyzeOcr \/ AnalyzeRdr \/ AnalyzeScore
    \/ AnalyzeBaseDecision \/ AnalyzeEscalateRdr \/ AnalyzeEscalateKeyword
    \/ AnalyzeWatermarkCall \/ AnalyzeWatermarkSkip
    \/ EmbedDecodeFails \/ EmbedBits \/ EmbedBlock \/ EmbedRowEnd \/ EmbedReturn
    \/ AnalyzeWatermarkOk \/ AnalyzeWatermarkError
    \/ AnalyzeRespond \/ AnalyzeExcept

Spec == Init /\ [][Next]_vars

(* --------------- embed_watermark_dct_bytes, called directly ----------- *)
EmbedMessages == Messages \cup {DefaultMessage}

InitEmbed ==
    /\ Rest /\ pc = "embed_decode"
    /\ img \in ImageDims /\ alpha \in AlphaValues /\ message \in EmbedMessages
    /\ exif = <<>> /\ exifRead = 0 /\ info = <<>> /\ trials = <<>>

NextEmbed == EmbedDecodeFails \/ EmbedBits \/ EmbedBlock \/ EmbedRowEnd \/ EmbedReturn

SpecEmbed == InitEmbed /\ [][NextEmbed]_vars

(* ----------------------- metadata_flags, alone ------------------------ *)
InitMeta ==
    /\ Rest /\ pc = "metadata_flags"
    /\ exif \in ExifMaps(MaxExif) /\ exifRead \in 0..Len(exif) /\ info \in InfoMaps(MaxInfo)
    /\ img = [h |-> 0, w |-> 0] /\ alpha = Alpha /\ message = <<>> /\ trials = <<>>

\* lines 66-88
MetadataFlagsCall ==
    /\ pc = "metadata_flags"
    /\ flags' = metadata_flags(exif, exifRead, info)
    /\ pc' = "done"
    /\ UNCHANGED << caller, img, rdr, trials, embed_calls, analyzeVars, metaVars, embedVars >>

NextMeta == MetadataFlagsCall

SpecMeta == InitMeta /\ [][NextMeta]_vars

(* ------------------- rdr_inconsistency_score, alone ------------------- *)
InitRdr ==
    /\ Rest /\ pc = "rdr_inconsistency_score"
    /\ trials \in TrialSeqs
    /\ img = [h |-> 0, w |-> 0] /\ alpha = Alpha /\ message = <<>>
    /\ exif = <<>> /\ exifRead = 0 /\ info = <<>>

\* lines 105-133
RdrCall ==
    /\ pc = "rdr_inconsistency_score"
    /\ rdr' = rdr_inconsistency_score(trials)
    /\ pc' = "done"
    /\ UNCHANGED << caller, img, flags, trials, embed_calls, analyzeVars, metaVars, embedVars >>

NextRdr == RdrCall

SpecRdr == InitRdr /\ [][NextRdr]_vars

(* ====================================================================== *)
(*                              properties                                *)
(* ====================================================================== *)
NoDuplicates(s) == \A a, b \in 1..Len(s) : a # b => s[a] # s[b]
HasLabel(form, name) == \E i \in 1..Len(flags) : flags[i] = <<form, name>>
WatermarkKeys == {"watermarked_base64", "watermark_message", "watermark_error"}
AnalysisFields == {"metadata_flags", "lsb_entropy", "global_entropy", "blockiness",
                   "ocr_texts", "ocr_suspicious", "rdr_score", "rdr_examples",
                   "stego_score", "decision"}
EmbedPcs == {"embed_decode", "embed_loop", "embed_encode", "embed_exit"}

\* C1: in analyze the decision never loses severity (ALLOW < SUSPICIOUS <
\* BLOCK): once computed, the decision is at least as severe as the base
\* decision, no step lowers it, and a BLOCK stays a BLOCK.
DecisionMonotone ==
    /\ [](base # "none" => Severity(decision) >= Severity(base))
    /\ [][Severity(decision') >= Severity(decision)]_vars
    /\ [][decision = "BLOCK" => decision' = "BLOCK"]_vars

\* C1 witness: a SUSPICIOUS base decision, both triggers present, the RDR
\* trigger raised it to BLOCK and the keyword trigger left it there.
DecisionMonotoneWitness ==
    /\ pc = "done" /\ response.status = 200
    /\ base = "SUSPICIOUS" /\ RdrAtLeastHalf(rdr.score) /\ suspicious_boxes # <<>>
    /\ response.body["decision"] = "BLOCK"

\* C2: the embedder is called, and a watermark key is in the result, only
\* when the final decision is ALLOW; with SUSPICIOUS or BLOCK no embedding
\* is attempted, whatever watermark_enabled is.
WatermarkOnlyWhenAllow ==
    /\ (embed_calls > 0 \/ pc \in EmbedPcs) => res["decision"] = "ALLOW"
    /\ (DOMAIN res \cap WatermarkKeys # {}) => res["decision"] = "ALLOW"
    /\ (pc = "done" /\ response.status = 200 /\ response.body["decision"] # "ALLOW")
         => (embed_calls = 0 /\ DOMAIN response.body \cap WatermarkKeys = {})

\* C2 witness: watermarking was requested for an image judged SUSPICIOUS and
\* the result carries no watermark.
WatermarkOnlyWhenAllowWitness ==
    /\ pc = "done" /\ response.status = 200 /\ watermark_enabled
    /\ response.body["decision"] = "SUSPICIOUS" /\ embed_calls = 0

\* C3: after the embedder has processed a block, the parity of the rounded
\* value it leaves at the block's (1, 0) coefficient is the message bit of
\* that block.
ParityCarriesBit ==
    processed # <<>> => RoundHalfEven(last.after) % 2 = last.bit

\* C4: when an OCR call raises during analyze of a decodable image (the
\* initial call or a resample trial), analyze still answers with a complete
\* analysis result carrying a decision, not with an error response.
OcrFailureAbsorbed ==
    (pc = "done" /\ img.h > 0 /\ (ocr_threw \/ trial_threw))
        => (response.status = 200 /\ "decision" \in DOMAIN response.body)

\* C5: with n = trials that returned non-empty text and c = those of them
\* whose text holds a keyword (raising and blank trials in neither count),
\* the score is 0 if n = 0 or c = 0, 0.5 + 0.5 * (1 - c/n) if 0 < c/n < 0.7,
\* and 0.4 * c/n if c/n >= 0.7.
RdrScoreFormula ==
    pc = "done" =>
        LET nonEmpty == {i \in 1..NumResamples :
                            ~trials[i].throws /\ strip(trials[i].text) # <<>>}
            n == Cardinality(nonEmpty)
            c == Cardinality({i \in nonEmpty : IsSuspiciousText(trials[i].text)})
            num == rdr.score[1]
            den == rdr.score[2]
        IN  /\ den > 0
            /\ (n = 0 \/ c = 0) => num = 0
            /\ (c > 0 /\ 10 * c < 7 * n) => num * (2 * n) = den * (n + (n - c))
            /\ (c > 0 /\ 10 * c >= 7 * n) => num * (10 * n) = den * (4 * c)

\* C5 witness: one trial raised, one was blank, one of the two texts read
\* holds a keyword, and the score is 0.75.
RdrScoreFormulaWitness ==
    /\ pc = "done"
    /\ \E i \in 1..NumResamples : trials[i].throws
    /\ \E i \in 1..NumResamples : ~trials[i].throws /\ trials[i].text = TextBlank
    /\ Len(rdr.sus) = 1
    /\ rdr.score = <<3, 4>>

\* C6: for a decodable host the embedder raises exactly when
\* min(L, bh * bw) = 0, L the bit length of the base64 text; otherwise it
\* returns having processed exactly the first min(L, bh * bw) blocks in
\* row-major order, block k with bit k, also when L > bh * bw.
EmbedTruncates ==
    LET L == 32 * ((Len(Utf8(message)) + 2) \div 3)
        all == BitString(MessageB64(message))
        m == Min(L, bh * bw)
    IN  /\ \A k \in 1..Len(processed) :
             processed[k] = << (k - 1) \div bw, (k - 1) % bw, all[k] >>
        /\ Len(processed) <= m
        /\ (pc = "embed_exit" /\ embed_out # "Cannot decode image") =>
             /\ (embed_out = "Message empty or host too small") <=> (m = 0)
             /\ (embed_out = "ok") <=> (m > 0)
             /\ Len(processed) = m

\* C6 witness: a 64-bit message in a host of 6 blocks: the embedder returned
\* after 6 blocks.
EmbedTruncatesWitness ==
    /\ pc = "embed_exit" /\ embed_out = "ok"
    /\ 32 * ((Len(Utf8(message)) + 2) \div 3) > bh * bw
    /\ bh * bw > 1 /\ Len(processed) = bh * bw

\* C7: when the embedder raises inside analyze, the response is the
\* successful result: every field computed before the call, unchanged, plus
\* watermark_error, and no watermarked image.
WatermarkFailureKeepsAnalysis ==
    (pc = "done" /\ embed_calls > 0 /\ embed_out # "ok") =>
        /\ response.status = 200
        /\ AnalysisFields \subseteq DOMAIN res0
        /\ DOMAIN response.body = DOMAIN res0 \cup {"watermark_error"}
        /\ \A k \in DOMAIN res0 : response.body[k] = res0[k]
        /\ response.body["watermark_error"] = embed_out

\* C7 witness: the embedder could not decode the bytes and the response is
\* a result with watermark_error.
WatermarkFailureKeepsAnalysisWitness ==
    /\ pc = "done" /\ embed_out = "Cannot decode image"
    /\ response.status = 200 /\ "watermark_error" \in DOMAIN response.body

\* C8 as stated: the flags are duplicate-free, every label has one of the
\* forms meta_field, meta_raw_bytes, meta_long, and an entry (EXIF or info)
\* with a watch-list name and a string longer than 512 characters yields a
\* meta_field and a meta_long label.
MetadataLabelsThreeForms ==
    pc = "done" =>
        /\ NoDuplicates(flags)
        /\ \A i \in 1..Len(flags) : flags[i][1] \in {"meta_field", "meta_raw_bytes", "meta_long"}
        /\ \A i \in 1..exifRead :
             (TagOnWatchList(exif[i].id) /\ IsLongStr(exif[i])) =>
                (HasLabel("meta_field", TagName(exif[i].id))
                 /\ HasLabel("meta_long", TagName(exif[i].id)))
        /\ \A i \in 1..Len(info) :
             (info[i].isstr /\ info[i].key \in METADATA_SUSPICION_KEYS /\ IsLongStr(info[i])) =>
                (HasLabel("meta_field", info[i].key) /\ HasLabel("meta_long", info[i].key))

\* C8 amended: the flags are duplicate-free; every label has one of the
\* forms meta_field, meta_raw_bytes, meta_long (naming the tag of an EXIF
\* entry) or png_info (naming a key of the info dictionary); an EXIF entry
\* that was read, with a watch-list name and a string longer than 512
\* characters, yields a meta_field and a meta_long label.
MetadataLabelsFourForms ==
    pc = "done" =>
        /\ NoDuplicates(flags)
        /\ \A i \in 1..Len(flags) :
             \/ /\ flags[i][1] \in {"meta_field", "meta_raw_bytes", "meta_long"}
                /\ \E j \in 1..exifRead : TagName(exif[j].id) = flags[i][2]
             \/ /\ flags[i][1] = "png_info"
                /\ \E j \in 1..Len(info) : info[j].key = flags[i][2]
        /\ \A i \in 1..exifRead :
             (TagOnWatchList(exif[i].id) /\ IsLongStr(exif[i])) =>
                (HasLabel("meta_field", TagName(exif[i].id))
                 /\ HasLabel("meta_long", TagName(exif[i].id)))

\* C8 witness: a 600-character ImageDescription was read and the info
\* dictionary holds a comment: the flags hold the three labels.
MetadataLabelsWitness ==
    /\ pc = "done"
    /\ \E i \in 1..exifRead : exif[i].id = 270 /\ IsLongStr(exif[i])
    /\ HasLabel("meta_field", "ImageDescription")
    /\ HasLabel("meta_long", "ImageDescription")
    /\ HasLabel("png_info", "comment")

\* C9: the stego_score analyze reports lies in [0, 1].
StegoScoreInUnitInterval ==
    /\ "stego_score" \in DOMAIN res =>
           (0 <= res["stego_score"] /\ res["stego_score"] <= ScoreUnit)
    /\ "stego_score" \in DOMAIN response.body =>
           (0 <= response.body["stego_score"] /\ response.body["stego_score"] <= ScoreUnit)

\* C9 witness: blockiness 20.0 puts the weighted sum above 1 and the
\* reported score is 1.
StegoScoreInUnitIntervalWitness ==
    /\ pc = "done" /\ response.status = 200
    /\ response.body["blockiness"] = 2000
    /\ RawScore(response.body["lsb_entropy"], response.body["global_entropy"],
                response.body["blockiness"], flags # <<>>) > ScoreUnit
    /\ response.body["stego_score"] = ScoreUnit

\* C10: when metadata_flags returns a flag, stego_score >= 0.6, the decision
\* is never ALLOW, and the embedder is never called.
FlaggedNeverAllowed ==
    flags # <<>> =>
        /\ "stego_score" \in DOMAIN res => 10 * res["stego_score"] >= 6 * ScoreUnit
        /\ "decision" \in DOMAIN res => res["decision"] \in {"SUSPICIOUS", "BLOCK"}
        /\ embed_calls = 0 /\ pc \notin EmbedPcs
        /\ DOMAIN res \cap WatermarkKeys = {}

\* C10 witness: a flagged image with all statistical scores 0 and no OCR or
\* RDR trigger, watermarking requested: score 0.6, SUSPICIOUS, no embedding.
FlaggedNeverAllowedWitness ==
    /\ pc = "done" /\ response.status = 200 /\ flags # <<>> /\ watermark_enabled
    /\ 10 * response.body["stego_score"] = 6 * ScoreUnit
    /\ response.body["decision"] = "SUSPICIOUS"
    /\ response.body["rdr_score"] = <<0, 1>> /\ suspicious_boxes = <<>>
    /\ embed_calls = 0

====
